---- MODULE Spec2Model ----
(***************************************************************************)
(* Futures lot-size calculator (src/src/App.tsx).                          *)
(*                                                                         *)
(* The file holds two variants of the App component: the typed one (lines  *)
(* 63-262) and the untyped one (lines 294-501).  They have the same state, *)
(* the same handlers and the same calculation, and differ only in how the  *)
(* calculation normalises its results (isNaN alone, or isNaN and           *)
(* !isFinite).  The variable `variant` says which component is mounted.    *)
(*                                                                         *)
(* Texts are sequences of one-character strings, so that parseFloat and    *)
(* Number.prototype.toString are computed character by character.          *)
(*                                                                         *)
(* A JavaScript number is NaN, +Infinity, -Infinity or a finite value      *)
(* n/d * 10^e, kept in a canonical form.  Finite arithmetic is exact       *)
(* (mantissa rounding of a double is not modelled), the range of a double  *)
(* is: a magnitude above Number.MAX_VALUE becomes an infinity, one below   *)
(* half of Number.MIN_VALUE becomes 0.  The sign of zero is not modelled   *)
(* (no expression of the program distinguishes -0 from 0).                 *)
(***************************************************************************)
EXTENDS Integers, Sequences, FiniteSets, TLC

VARIABLES variant, instrument, stopLossPoints, riskAmount, isHalfRisk,
          fullRiskValue, calculations, event, pre, trip, halve

vars == <<variant, instrument, stopLossPoints, riskAmount, isHalfRisk,
          fullRiskValue, calculations, event, pre, trip, halve>>

(***************************************************************************)
(* JavaScript numbers                                                      *)
(***************************************************************************)
NaN == [k |-> "NaN", n |-> 0, d |-> 1, e |-> 0]

PosInf == [k |-> "Infinity", n |-> 0, d |-> 1, e |-> 0]

NegInf == [k |-> "-Infinity", n |-> 0, d |-> 1, e |-> 0]

Fin(n, d, e) == [k |-> "fin", n |-> n, d |-> d, e |-> e]

Zero == Fin(0, 1, 0)

One == Fin(1, 1, 0)

Two == Fin(2, 1, 0)

Abs(i) == IF i < 0 THEN -i ELSE i

RECURSIVE Pow10(_)
Pow10(j) == IF j <= 0 THEN 1 ELSE 10 * Pow10(j - 1)

RECURSIVE NumDigits(_)
NumDigits(m) == IF m < 10 THEN 1 ELSE 1 + NumDigits(m \div 10)

RECURSIVE GCD(_, _)
GCD(a, b) == IF b = 0 THEN a ELSE GCD(b, a % b)

\* The canonical form of n/d * 10^e (d > 0): n is no multiple of 10, d has no
\* factor 2 or 5, and n/d is in lowest terms; zero is 0/1 * 10^0.
RECURSIVE Canon(_, _, _)
Canon(n, d, e) ==
    IF n = 0 THEN Zero
    ELSE IF n % 10 = 0 THEN Canon(n \div 10, d, e + 1)
    ELSE IF d % 10 = 0 THEN Canon(n, d \div 10, e - 1)
    ELSE IF d % 2 = 0 THEN Canon(n * 5, d \div 2, e - 1)
    ELSE IF d % 5 = 0 THEN Canon(n * 2, d \div 5, e - 1)
    ELSE LET g == GCD(Abs(n), d) IN Fin(n \div g, d \div g, e)

\* The decimal order of magnitude of a finite x # 0:
\* 10^(Mag(x) - 1) < |x| < 10^(Mag(x) + 1).
Mag(x) == x.e + NumDigits(Abs(x.n)) - NumDigits(x.d)

\* -1, 0 or 1 as a < b, a = b or a > b, for finite a, b > 0.
CmpPos(a, b) ==
    IF Mag(a) >= Mag(b) + 2 THEN 1
    ELSE IF Mag(a) <= Mag(b) - 2 THEN -1
    ELSE LET m == IF a.e < b.e THEN a.e ELSE b.e
             l == a.n * b.d * Pow10(a.e - m)
             r == b.n * a.d * Pow10(b.e - m)
         IN IF l < r THEN -1 ELSE IF l = r THEN 0 ELSE 1

Sign(x) == IF x.n < 0 THEN -1 ELSE IF x.n = 0 THEN 0 ELSE 1

Neg(x) ==
    CASE x.k = "fin" -> Fin(-x.n, x.d, x.e)
      [] x.k = "Infinity" -> NegInf
      [] x.k = "-Infinity" -> PosInf
      [] OTHER -> NaN

\* -1, 0 or 1 for finite a and b of either sign.
CmpFin(a, b) ==
    IF Sign(a) # Sign(b) THEN (IF Sign(a) < Sign(b) THEN -1 ELSE 1)
    ELSE IF Sign(a) = 0 THEN 0
    ELSE IF Sign(a) > 0 THEN CmpPos(a, b)
    ELSE CmpPos(Neg(b), Neg(a))

\* a < b and a <= b as JavaScript evaluates them: false when either is NaN.
Lt(a, b) ==
    CASE a.k = "NaN" \/ b.k = "NaN" -> FALSE
      [] a.k = "Infinity" -> FALSE
      [] b.k = "-Infinity" -> FALSE
      [] a.k = "-Infinity" -> TRUE
      [] b.k = "Infinity" -> TRUE
      [] OTHER -> CmpFin(a, b) < 0

Leq(a, b) ==
    CASE a.k = "NaN" \/ b.k = "NaN" -> FALSE
      [] OTHER -> a = b \/ Lt(a, b)

\* Approximately Number.MAX_VALUE (1.7976931348623157e308) and half of
\* Number.MIN_VALUE (5e-324), to four digits.
MaxValue == Fin(1798, 1, 305)

HalfMinValue == Fin(247, 1, -326)

\* The double a real result n/d * 10^e rounds to, as far as its range goes.
Round(n, d, e) ==
    LET c == Canon(n, d, e)
        a == Fin(Abs(c.n), c.d, c.e)
    IN IF c.n = 0 THEN Zero
       ELSE IF CmpPos(a, MaxValue) > 0 THEN (IF c.n < 0 THEN NegInf ELSE PosInf)
       ELSE IF CmpPos(a, HalfMinValue) <= 0 THEN Zero
       ELSE c

IsInf(x) == x.k \in {"Infinity", "-Infinity"}

InfSign(x) == IF x.k = "Infinity" THEN 1 ELSE IF x.k = "-Infinity" THEN -1 ELSE Sign(x)

\* x * y
Mul(x, y) ==
    CASE x.k = "NaN" \/ y.k = "NaN" -> NaN
      [] IsInf(x) \/ IsInf(y) ->
            IF InfSign(x) * InfSign(y) = 0 THEN NaN
            ELSE IF InfSign(x) * InfSign(y) > 0 THEN PosInf ELSE NegInf
      [] OTHER -> Round(x.n * y.n, x.d * y.d, x.e + y.e)

\* x / y
Div(x, y) ==
    CASE x.k = "NaN" \/ y.k = "NaN" -> NaN
      [] IsInf(x) /\ IsInf(y) -> NaN
      [] IsInf(x) -> IF InfSign(x) * (IF Sign(y) < 0 THEN -1 ELSE 1) > 0
                     THEN PosInf ELSE NegInf
      [] IsInf(y) -> Zero
      [] y.n = 0 -> IF x.n = 0 THEN NaN ELSE IF x.n > 0 THEN PosInf ELSE NegInf
      [] OTHER -> IF y.n > 0 THEN Round(x.n * y.d, x.d * y.n, x.e - y.e)
                  ELSE Round(-(x.n * y.d), x.d * (-y.n), x.e - y.e)

\* A double of magnitude 2^53 or more is an integer.
IsHuge(x) == Mag(x) >= 18

\* Math.floor(x)
MathFloor(x) ==
    IF x.k # "fin" \/ x.n = 0 THEN x
    ELSE IF x.d = 1 /\ x.e >= 0 THEN x
    ELSE IF IsHuge(x) THEN x
    ELSE IF Mag(x) <= -1 THEN (IF x.n > 0 THEN Zero ELSE Fin(-1, 1, 0))
    ELSE Canon((x.n * Pow10(x.e)) \div (x.d * Pow10(-x.e)), 1, 0)

\* Math.ceil(x)
MathCeil(x) ==
    IF x.k # "fin" \/ x.n = 0 THEN x
    ELSE IF x.d = 1 /\ x.e >= 0 THEN x
    ELSE IF IsHuge(x) THEN x
    ELSE IF Mag(x) <= -1 THEN (IF x.n > 0 THEN One ELSE Zero)
    ELSE Canon(-(((-x.n) * Pow10(x.e)) \div (x.d * Pow10(-x.e))), 1, 0)

\* isNaN(x) and isFinite(x)
isNaN(x) == x.k = "NaN"

isFinite(x) == x.k = "fin"

\* x || 0: NaN and 0 are falsy.
OrZero(x) == IF x.k = "NaN" \/ (x.k = "fin" /\ x.n = 0) THEN Zero ELSE x

(***************************************************************************)
(* Texts: parseFloat and Number.prototype.toString                         *)
(***************************************************************************)
DecimalDigits == <<"0", "1", "2", "3", "4", "5", "6", "7", "8", "9">>

IsDigit(c) == \E i \in 1..10 : DecimalDigits[i] = c

DigitValue(c) == (CHOOSE i \in 1..10 : DecimalDigits[i] = c) - 1

WhiteSpace == {" ", "\t", "\n"}

InfinityText == <<"I", "n", "f", "i", "n", "i", "t", "y">>

NaNText == <<"N", "a", "N">>

\* The first index from i on that holds no white space (Len(s) + 1 if none).
RECURSIVE SkipWhiteSpace(_, _)
SkipWhiteSpace(s, i) ==
    IF i <= Len(s) /\ s[i] \in WhiteSpace THEN SkipWhiteSpace(s, i + 1) ELSE i

\* The index after the longest run of digits that starts at i.
RECURSIVE DigitRunEnd(_, _)
DigitRunEnd(s, i) ==
    IF i <= Len(s) /\ IsDigit(s[i]) THEN DigitRunEnd(s, i + 1) ELSE i

\* The value of the digits s[i], ..., s[j - 1]; 0 when there is none.
RECURSIVE DigitsValue(_, _, _)
DigitsValue(s, i, j) ==
    IF j <= i THEN 0 ELSE 10 * DigitsValue(s, i, j - 1) + DigitValue(s[j - 1])

StartsWith(s, i, t) ==
    /\ i + Len(t) - 1 <= Len(s)
    /\ \A j \in 1..Len(t) : s[i + j - 1] = t[j]

\* parseFloat(s): leading white space is skipped, then the longest prefix that
\* is a StrDecimalLiteral is converted; NaN when there is no such prefix.
parseFloat(s) ==
    LET i0 == SkipWhiteSpace(s, 1)
        hasSign == i0 <= Len(s) /\ s[i0] \in {"+", "-"}
        neg == hasSign /\ s[i0] = "-"
        i1 == IF hasSign THEN i0 + 1 ELSE i0
        i2 == DigitRunEnd(s, i1)
        hasDot == i2 <= Len(s) /\ s[i2] = "."
        i3 == IF hasDot THEN DigitRunEnd(s, i2 + 1) ELSE i2
        nInt == i2 - i1
        nFrac == IF hasDot THEN i3 - (i2 + 1) ELSE 0
        hasE == i3 <= Len(s) /\ s[i3] \in {"e", "E"}
        i4 == IF hasE /\ i3 + 1 <= Len(s) /\ s[i3 + 1] \in {"+", "-"}
              THEN i3 + 2 ELSE i3 + 1
        i5 == DigitRunEnd(s, i4)
        hasExp == hasE /\ i5 > i4
        expNeg == hasExp /\ s[i3 + 1] = "-"
        expVal == IF hasExp
                  THEN (IF expNeg THEN -DigitsValue(s, i4, i5) ELSE DigitsValue(s, i4, i5))
                  ELSE 0
        mant == DigitsValue(s, i1, i2) * Pow10(nFrac) + DigitsValue(s, i2 + 1, i3)
    IN IF StartsWith(s, i1, InfinityText) THEN (IF neg THEN NegInf ELSE PosInf)
       ELSE IF nInt + nFrac = 0 THEN NaN
       ELSE Round(IF neg THEN -mant ELSE mant, 1, expVal - nFrac)

\* The decimal digits of m >= 0.
RECURSIVE DigitsOf(_)
DigitsOf(m) ==
    IF m < 10 THEN <<DecimalDigits[m + 1]>>
    ELSE DigitsOf(m \div 10) \o <<DecimalDigits[(m % 10) + 1]>>

RECURSIVE Zeros(_)
Zeros(j) == IF j <= 0 THEN <<>> ELSE <<"0">> \o Zeros(j - 1)

\* Number.prototype.toString of a finite x > 0 whose decimal digits are those of
\* x.n (x.d = 1): the digits, with the point at position pt = (number of
\* digits) + x.e; plain notation for -6 < pt <= 21, exponential otherwise.
PositiveToString(x) ==
    LET ds == DigitsOf(x.n)
        kk == Len(ds)
        pt == kk + x.e
        ex == pt - 1
    IN IF kk <= pt /\ pt <= 21 THEN ds \o Zeros(pt - kk)
       ELSE IF 0 < pt /\ pt <= 21
            THEN SubSeq(ds, 1, pt) \o <<".">> \o SubSeq(ds, pt + 1, kk)
       ELSE IF -6 < pt /\ pt <= 0 THEN <<"0", ".">> \o Zeros(-pt) \o ds
       ELSE (IF kk = 1 THEN ds ELSE <<ds[1], ".">> \o SubSeq(ds, 2, kk))
            \o <<"e", IF ex < 0 THEN "-" ELSE "+">> \o DigitsOf(Abs(ex))

\* x.toString().  A finite x is a decimal fraction wherever the program calls
\* it (half of a parsed decimal); any other finite x is written as the decimal
\* expansion of x.n with the exponent of x.
numberToString(x) ==
    CASE x.k = "NaN" -> NaNText
      [] x.k = "Infinity" -> InfinityText
      [] x.k = "-Infinity" -> <<"-">> \o InfinityText
      [] x.n = 0 -> <<"0">>
      [] x.n < 0 -> <<"-">> \o PositiveToString(Neg(x))
      [] OTHER -> PositiveToString(x)

(***************************************************************************)
(* The instrument table and the memoized calculation                       *)
(***************************************************************************)
InstrumentKey == {"NQ", "MNQ", "ES", "MES", "GC", "MGC"}

INSTRUMENT_DATA ==
    [NQ  |-> [name |-> "NQ",  tickValue |-> Fin(5, 1, 0),    ticksPerPoint |-> Fin(4, 1, 0)],
     MNQ |-> [name |-> "MNQ", tickValue |-> Fin(5, 1, -1),   ticksPerPoint |-> Fin(4, 1, 0)],
     ES  |-> [name |-> "ES",  tickValue |-> Fin(125, 1, -1), ticksPerPoint |-> Fin(4, 1, 0)],
     MES |-> [name |-> "MES", tickValue |-> Fin(125, 1, -2), ticksPerPoint |-> Fin(4, 1, 0)],
     GC  |-> [name |-> "GC",  tickValue |-> Fin(1, 1, 1),    ticksPerPoint |-> Fin(1, 1, 1)],
     MGC |-> [name |-> "MGC", tickValue |-> Fin(1, 1, 0),    ticksPerPoint |-> Fin(1, 1, 1)]]

Variants == {"typed", "untyped"}

\* What the calculation returns.
Result(raw, floor, rFloor, ceil, rCeil, perContract) ==
    [threw |-> FALSE, rawLotSize |-> raw, floorLotSize |-> floor,
     riskForFloor |-> rFloor, ceilLotSize |-> ceil, riskForCeil |-> rCeil,
     riskForOneContract |-> perContract]

\* Destructuring INSTRUMENT_DATA[instrument] of a key that is not in the table
\* throws a TypeError; the calculation has no other way to throw.
TypeError ==
    [threw |-> TRUE, rawLotSize |-> NaN, floorLotSize |-> NaN,
     riskForFloor |-> NaN, ceilLotSize |-> NaN, riskForCeil |-> NaN,
     riskForOneContract |-> NaN]

\* The guard of each returned field: isNaN(x) ? 0 : x in the typed component,
\* isNaN(x) || !isFinite(x) ? 0 : x in the untyped one.
Normalize(v, x) ==
    IF v = "typed" THEN (IF isNaN(x) THEN Zero ELSE x)
    ELSE (IF isNaN(x) \/ ~isFinite(x) THEN Zero ELSE x)

\* parseFloat(text) with the "|| 0" left out.
ParseNoDefault(text) == parseFloat(text)

\* parseFloat(text) || 0
ParseOrZero(text) == OrZero(parseFloat(text))

\* The calculation is written as a chain of operators, one per group of const
\* declarations of the callback, each handing its values to the next.
\*
\* The return past the early return: every field but riskForOneContract goes
\* through the guard.
ReturnLotSizes(v, riskPerContract, rawLotSize, floorLotSize, ceilLotSize) ==
    Result(Normalize(v, rawLotSize), Normalize(v, floorLotSize),
           Normalize(v, Mul(floorLotSize, riskPerContract)),
           Normalize(v, ceilLotSize),
           Normalize(v, Mul(ceilLotSize, riskPerContract)), riskPerContract)

\* floorLotSize = Math.floor(rawLotSize), ceilLotSize = Math.ceil(rawLotSize)
RoundLotSize(v, riskPerContract, rawLotSize) ==
    ReturnLotSizes(v, riskPerContract, rawLotSize,
                   MathFloor(rawLotSize), MathCeil(rawLotSize))

\* The early return taken on the stop loss alone.
SizeLotsStopLossOnly(v, slPoints, currentRiskAmount, riskPerContract) ==
    IF Leq(slPoints, Zero)
    THEN Result(Zero, Zero, Zero, Zero, Zero, Zero)
    ELSE RoundLotSize(v, riskPerContract, Div(currentRiskAmount, riskPerContract))

\* The early return with riskForOneContract zeroed like the other fields.
SizeLotsAllZero(v, slPoints, currentRiskAmount, riskPerContract) ==
    IF Leq(slPoints, Zero) \/ Leq(currentRiskAmount, Zero)
    THEN Result(Zero, Zero, Zero, Zero, Zero, Zero)
    ELSE RoundLotSize(v, riskPerContract, Div(currentRiskAmount, riskPerContract))

\* if (slPoints <= 0 || currentRiskAmount <= 0) return the zeroed result, with
\* riskForOneContract = slPoints > 0 ? slPoints * ticksPerPoint * tickValue : 0;
\* otherwise rawLotSize = currentRiskAmount / riskPerContract.
SizeLots(v, slPoints, currentRiskAmount, riskPerContract) ==
    IF Leq(slPoints, Zero) \/ Leq(currentRiskAmount, Zero)
    THEN Result(Zero, Zero, Zero, Zero, Zero,
                IF Lt(Zero, slPoints) THEN riskPerContract ELSE Zero)
    ELSE RoundLotSize(v, riskPerContract, Div(currentRiskAmount, riskPerContract))

\* riskPerContract = slPoints * ticksPerPoint * tickValue
RiskPerContract(slPoints, ticksPerPoint, tickValue) ==
    Mul(Mul(slPoints, ticksPerPoint), tickValue)

\* The callback of useMemo, in component v.
Calculate(v, inst, stopLossText, riskText) ==
    IF inst \notin DOMAIN INSTRUMENT_DATA THEN TypeError
    ELSE SizeLots(v, ParseOrZero(stopLossText), ParseOrZero(riskText),
                  RiskPerContract(ParseOrZero(stopLossText),
                                  INSTRUMENT_DATA[inst].ticksPerPoint,
                                  INSTRUMENT_DATA[inst].tickValue))

\* useMemo with riskAmount missing from its dependency list.
UseMemoMissingDependency ==
    calculations' =
        IF <<stopLossPoints', instrument'>> # <<stopLossPoints, instrument>>
        THEN Calculate(variant, instrument', stopLossPoints', riskAmount')
        ELSE calculations

\* useMemo(..., [stopLossPoints, riskAmount, instrument]) at the render that
\* follows an event: the callback runs when a dependency changed, and the
\* memoized value is kept otherwise.
UseMemo ==
    calculations' =
        IF <<stopLossPoints', riskAmount', instrument'>>
             # <<stopLossPoints, riskAmount, instrument>>
        THEN Calculate(variant, instrument', stopLossPoints', riskAmount')
        ELSE calculations

(***************************************************************************)
(* Texts the fields can hold                                               *)
(***************************************************************************)
\* Values of an <input type="number">: the empty text or a number.
TextPool ==
    << <<"1", "0", "0">>, <<"1", "0">>, <<>>,
       <<"1", "e", "3", "0", "8">>, <<"0", ".", "0", "0", "1">>, <<"3">>,
       <<"0">>, <<"5", "0", "0">>, <<"1", "e", "-", "3", "2", "3">>,
       <<"-", "5">>, <<"2", "5">> >>

NumEditTexts == 6

EditTexts ==
    {TextPool[i] : i \in 1..(IF NumEditTexts < Len(TextPool)
                              THEN NumEditTexts ELSE Len(TextPool))}

(***************************************************************************)
(* The component: state, handlers, events                                  *)
(***************************************************************************)
\* What an observer of the component notes at each event: the handler that
\* ran and its argument (event), whether the risk was halved before it (pre),
\* and how far a halve that is followed at once by a restore has come (trip:
\* the risk text a firing halve found, then "restored" when the very next
\* event is a firing restore), and, while the risk is halved and at the restore
\* that ends it, the risk text the firing halve found and the texts typed into
\* the risk field since (halve).
NoTrip == [stage |-> "none", R |-> <<>>]

NoHalve == [held |-> FALSE, R |-> <<>>, typed |-> <<>>]

Record(name, value) ==
    /\ event' = [name |-> name, value |-> value]
    /\ pre' = [isHalfRisk |-> isHalfRisk]
    /\ trip' = IF name = "handleHalfRisk" /\ ~isHalfRisk
               THEN [stage |-> "halved", R |-> riskAmount]
               ELSE IF name = "handleFullRisk" /\ isHalfRisk /\ trip.stage = "halved"
               THEN [stage |-> "restored", R |-> trip.R]
               ELSE NoTrip
    /\ halve' = IF name = "handleHalfRisk" /\ ~isHalfRisk
                THEN [held |-> TRUE, R |-> riskAmount, typed |-> <<>>]
                ELSE IF isHalfRisk /\ name = "handleRiskAmountChange"
                THEN [halve EXCEPT !.typed = <<value>>]
                ELSE IF isHalfRisk
                THEN halve
                ELSE NoHalve

\* useState: the state of a component that has been mounted and rendered once.
Init ==
    /\ variant \in Variants
    /\ instrument = "NQ"
    /\ stopLossPoints = <<"1", "0">>
    /\ riskAmount = <<"1", "0", "0">>
    /\ isHalfRisk = FALSE
    /\ fullRiskValue = <<"1", "0", "0">>
    /\ calculations = Calculate(variant, instrument, stopLossPoints, riskAmount)
    /\ event = [name |-> "mount", value |-> <<>>]
    /\ pre = [isHalfRisk |-> FALSE]
    /\ trip = NoTrip
    /\ halve = NoHalve

\* onClick={() => setInstrument(instKey)}
setInstrument(instKey) ==
    /\ instrument' = instKey
    /\ UNCHANGED <<stopLossPoints, riskAmount, isHalfRisk, fullRiskValue>>

\* onChange={(e) => setStopLossPoints(e.target.value)}
setStopLossPoints(value) ==
    /\ stopLossPoints' = value
    /\ UNCHANGED <<instrument, riskAmount, isHalfRisk, fullRiskValue>>

\* The edit that writes the snapshot whatever the toggle says.
handleRiskAmountChangeUnguarded(value) ==
    /\ riskAmount' = value
    /\ fullRiskValue' = value
    /\ UNCHANGED <<instrument, stopLossPoints, isHalfRisk>>

\* The edit that never writes the snapshot.
handleRiskAmountChangeNoSnapshot(value) ==
    /\ riskAmount' = value
    /\ UNCHANGED <<instrument, stopLossPoints, isHalfRisk, fullRiskValue>>

handleRiskAmountChange(value) ==
    /\ riskAmount' = value
    /\ fullRiskValue' = IF ~isHalfRisk THEN value ELSE fullRiskValue
    /\ UNCHANGED <<instrument, stopLossPoints, isHalfRisk>>

\* The halve that does not look at the toggle.
handleHalfRiskUnguarded ==
    /\ fullRiskValue' = riskAmount
    /\ riskAmount' = numberToString(Div(parseFloat(riskAmount), Two))
    /\ isHalfRisk' = TRUE
    /\ UNCHANGED <<instrument, stopLossPoints>>

\* The halve that parses the risk as the calculation does (parseFloat || 0).
handleHalfRiskParseOrZero ==
    IF ~isHalfRisk
    THEN /\ fullRiskValue' = riskAmount
         /\ riskAmount' = numberToString(Div(OrZero(parseFloat(riskAmount)), Two))
         /\ isHalfRisk' = TRUE
         /\ UNCHANGED <<instrument, stopLossPoints>>
    ELSE UNCHANGED <<instrument, stopLossPoints, riskAmount, isHalfRisk, fullRiskValue>>

handleHalfRisk ==
    IF ~isHalfRisk
    THEN /\ fullRiskValue' = riskAmount
         /\ riskAmount' = numberToString(Div(parseFloat(riskAmount), Two))
         /\ isHalfRisk' = TRUE
         /\ UNCHANGED <<instrument, stopLossPoints>>
    ELSE UNCHANGED <<instrument, stopLossPoints, riskAmount, isHalfRisk, fullRiskValue>>

\* The restore that doubles the halved risk instead of reading the snapshot.
handleFullRiskDoubling ==
    IF isHalfRisk
    THEN /\ riskAmount' = numberToString(Mul(parseFloat(riskAmount), Two))
         /\ isHalfRisk' = FALSE
         /\ UNCHANGED <<instrument, stopLossPoints, fullRiskValue>>
    ELSE UNCHANGED <<instrument, stopLossPoints, riskAmount, isHalfRisk, fullRiskValue>>

\* The restore that clears the flag and keeps the text in the field.
handleFullRiskKeepTyped ==
    IF isHalfRisk
    THEN /\ isHalfRisk' = FALSE
         /\ UNCHANGED <<instrument, stopLossPoints, riskAmount, fullRiskValue>>
    ELSE UNCHANGED <<instrument, stopLossPoints, riskAmount, isHalfRisk, fullRiskValue>>

handleFullRisk ==
    IF isHalfRisk
    THEN /\ riskAmount' = fullRiskValue
         /\ isHalfRisk' = FALSE
         /\ UNCHANGED <<instrument, stopLossPoints, fullRiskValue>>
    ELSE UNCHANGED <<instrument, stopLossPoints, riskAmount, isHalfRisk, fullRiskValue>>

\* One event: the handler runs, then the component renders again.
SelectInstrument ==
    \E instKey \in InstrumentKey :
        /\ setInstrument(instKey)
        /\ UseMemo
        /\ Record("setInstrument", instKey)
        /\ UNCHANGED variant

EditStopLoss ==
    \E value \in EditTexts :
        /\ setStopLossPoints(value)
        /\ UseMemo
        /\ Record("setStopLossPoints", value)
        /\ UNCHANGED variant

EditRiskAmount ==
    \E value \in EditTexts :
        /\ handleRiskAmountChange(value)
        /\ UseMemo
        /\ Record("handleRiskAmountChange", value)
        /\ UNCHANGED variant

HalfR ==
    /\ handleHalfRisk
    /\ UseMemo
    /\ Record("handleHalfRisk", <<>>)
    /\ UNCHANGED variant

FullR ==
    /\ handleFullRisk
    /\ UseMemo
    /\ Record("handleFullRisk", <<>>)
    /\ UNCHANGED variant

Next ==
    \/ SelectInstrument
    \/ EditStopLoss
    \/ EditRiskAmount
    \/ HalfR
    \/ FullR

Spec == Init /\ [][Next]_vars

(***************************************************************************)
(* The calculation alone, on any two texts                                 *)
(***************************************************************************)
\* Texts that are no value of a number field.
OtherTexts ==
    { <<"a", "b", "c">>, <<"I", "n", "f", "i", "n", "i", "t", "y">>,
      <<"-", "I", "n", "f", "i", "n", "i", "t", "y">>, <<" ", "4", "2", "p", "x">>,
      <<"N", "a", "N">>, <<".">>, <<".", "5">> }

CalcTexts == {TextPool[i] : i \in 1..Len(TextPool)} \cup OtherTexts

\* The memoized value before the first render: no result yet.
NotRendered ==
    [threw |-> FALSE, rawLotSize |-> NaN, floorLotSize |-> NaN,
     riskForFloor |-> NaN, ceilLotSize |-> NaN, riskForCeil |-> NaN,
     riskForOneContract |-> NaN]

\* A component whose state holds any instrument and any two texts, before its
\* first render.
InitCalc ==
    /\ variant \in Variants
    /\ instrument \in InstrumentKey
    /\ stopLossPoints \in CalcTexts
    /\ riskAmount \in CalcTexts
    /\ isHalfRisk = FALSE
    /\ fullRiskValue = riskAmount
    /\ calculations = NotRendered
    /\ event = [name |-> "useState", value |-> <<>>]
    /\ pre = [isHalfRisk |-> FALSE]
    /\ trip = NoTrip
    /\ halve = NoHalve

\* The first render: useMemo runs its callback.
Render ==
    /\ event.name = "useState"
    /\ calculations' = Calculate(variant, instrument, stopLossPoints, riskAmount)
    /\ event' = [name |-> "render", value |-> <<>>]
    /\ UNCHANGED <<variant, instrument, stopLossPoints, riskAmount, isHalfRisk,
                   fullRiskValue, pre, trip, halve>>

NextCalc == Render

SpecCalc == InitCalc /\ [][NextCalc]_vars

(***************************************************************************)
(* Properties                                                              *)
(***************************************************************************)
\* a - b, for the differences the properties speak of.
Sub(a, b) ==
    CASE a.k = "NaN" \/ b.k = "NaN" -> NaN
      [] IsInf(a) /\ IsInf(b) -> IF a = b THEN NaN ELSE a
      [] IsInf(a) -> a
      [] IsInf(b) -> Neg(b)
      [] a = b -> Zero
      [] OTHER -> Round(a.n * b.d * Pow10(a.e - b.e) - b.n * a.d * Pow10(b.e - a.e),
                        a.d * b.d,
                        IF a.e < b.e THEN a.e ELSE b.e)

T100 == <<"1", "0", "0">>

T50 == <<"5", "0">>

T10 == <<"1", "0">>

T1e308 == <<"1", "e", "3", "0", "8">>

\* C1: a halve that fires in state Full with riskAmount = R, followed at once
\* by a restore, ends in state Full with riskAmount = R.
C1_ToggleRoundTrip ==
    trip.stage = "restored" => (riskAmount = trip.R /\ ~isHalfRisk)

C1_Witness ==
    /\ trip.stage = "restored"
    /\ trip.R = T1e308
    /\ riskAmount = T1e308
    /\ ~isHalfRisk

\* C2: handleFullRisk invoked in state Full, and handleHalfRisk invoked in
\* state Half, leave riskAmount, fullRiskValue and isHalfRisk as they were.
C2_WrongStateNoOp ==
    [][((event'.name = "handleFullRisk" /\ ~isHalfRisk)
          \/ (event'.name = "handleHalfRisk" /\ isHalfRisk))
        => UNCHANGED <<riskAmount, fullRiskValue, isHalfRisk>>]_vars

C2_Witness ==
    /\ event.name = "handleHalfRisk"
    /\ pre.isHalfRisk
    /\ isHalfRisk
    /\ riskAmount = T50
    /\ fullRiskValue = T100

\* C3: fullRiskValue changes only in a step taken while isHalfRisk is false; an
\* edit of the risk field in state Full sets fullRiskValue to the edited text,
\* an edit in state Half leaves fullRiskValue as it was.
C3_SnapshotDiscipline ==
    [][/\ fullRiskValue' # fullRiskValue => ~isHalfRisk
       /\ (event'.name = "handleRiskAmountChange" /\ ~isHalfRisk)
             => fullRiskValue' = event'.value
       /\ (event'.name = "handleRiskAmountChange" /\ isHalfRisk)
             => fullRiskValue' = fullRiskValue]_vars

C3_Witness ==
    /\ event.name = "handleRiskAmountChange"
    /\ pre.isHalfRisk
    /\ riskAmount = event.value
    /\ fullRiskValue = T100
    /\ riskAmount # fullRiskValue

\* C4: handleHalfRisk invoked in state Full sets fullRiskValue to the
\* riskAmount text before the call, riskAmount to the text of half its numeric
\* value (parseFloat), and isHalfRisk to true; "100" becomes "50".
C4_HalveEffect ==
    [][(event'.name = "handleHalfRisk" /\ ~isHalfRisk)
        => /\ fullRiskValue' = riskAmount
           /\ riskAmount' = numberToString(Div(parseFloat(riskAmount), Two))
           /\ isHalfRisk'
           /\ riskAmount = T100 => riskAmount' = T50
           /\ riskAmount = <<>> => riskAmount' = NaNText]_vars

C4_Witness ==
    /\ event.name = "handleHalfRisk"
    /\ ~pre.isHalfRisk
    /\ isHalfRisk
    /\ fullRiskValue = T100
    /\ riskAmount = T50

\* C5: when the parsed stop loss is <= 0 or the parsed risk is <= 0, the five
\* counts and risks are 0 and riskForOneContract is
\* stop loss * ticksPerPoint * tickValue if the stop loss is > 0, else 0.
C5_DegenerateCase ==
    (/\ event.name = "render"
     /\ Leq(OrZero(parseFloat(stopLossPoints)), Zero)
           \/ Leq(OrZero(parseFloat(riskAmount)), Zero))
    => /\ calculations.rawLotSize = Zero
       /\ calculations.floorLotSize = Zero
       /\ calculations.riskForFloor = Zero
       /\ calculations.ceilLotSize = Zero
       /\ calculations.riskForCeil = Zero
       /\ calculations.riskForOneContract =
             IF Lt(Zero, OrZero(parseFloat(stopLossPoints)))
             THEN Mul(Mul(OrZero(parseFloat(stopLossPoints)),
                          INSTRUMENT_DATA[instrument].ticksPerPoint),
                      INSTRUMENT_DATA[instrument].tickValue)
             ELSE Zero
       /\ (instrument = "NQ" /\ stopLossPoints = T10)
             => calculations.riskForOneContract = Fin(2, 1, 2)

C5_Witness ==
    /\ event.name = "render"
    /\ instrument = "NQ"
    /\ stopLossPoints = T10
    /\ riskAmount = <<"-", "5">>
    /\ calculations.rawLotSize = Zero
    /\ calculations.floorLotSize = Zero
    /\ calculations.riskForOneContract = Fin(2, 1, 2)

\* C6: riskForOneContract is stop loss * ticksPerPoint * tickValue of the
\* selected instrument when the parsed stop loss is > 0 and 0 otherwise,
\* whatever the risk text; NQ with stop loss "10" gives 200.
C6_RiskForOneContract ==
    event.name = "render"
    => /\ calculations.riskForOneContract =
             IF Lt(Zero, OrZero(parseFloat(stopLossPoints)))
             THEN Mul(Mul(OrZero(parseFloat(stopLossPoints)),
                          INSTRUMENT_DATA[instrument].ticksPerPoint),
                      INSTRUMENT_DATA[instrument].tickValue)
             ELSE Zero
       /\ (instrument = "NQ" /\ stopLossPoints = T10)
             => calculations.riskForOneContract = Fin(2, 1, 2)
       /\ (instrument = "ES" /\ stopLossPoints = <<"3">>)
             => calculations.riskForOneContract = Fin(15, 1, 1)

C6_Witness ==
    /\ event.name = "render"
    /\ instrument = "NQ"
    /\ stopLossPoints = T10
    /\ riskAmount = <<"0">>
    /\ calculations.riskForOneContract = Fin(2, 1, 2)

\* C7: for positive parsed stop loss and risk, floorLotSize <= rawLotSize <=
\* ceilLotSize and ceilLotSize - floorLotSize is 0 or 1; when the risk is below
\* riskForOneContract, floorLotSize is 0 and ceilLotSize is 1.
C7_Bracketing ==
    (/\ Lt(Zero, OrZero(parseFloat(stopLossPoints)))
     /\ Lt(Zero, OrZero(parseFloat(riskAmount))))
    => /\ Leq(calculations.floorLotSize, calculations.rawLotSize)
       /\ Leq(calculations.rawLotSize, calculations.ceilLotSize)
       /\ Sub(calculations.ceilLotSize, calculations.floorLotSize) \in {Zero, One}
       /\ Lt(OrZero(parseFloat(riskAmount)), calculations.riskForOneContract)
             => /\ calculations.floorLotSize = Zero
                /\ calculations.ceilLotSize = One

\* C8: none of rawLotSize, floorLotSize, riskForFloor, ceilLotSize and
\* riskForCeil is returned as NaN or as an infinity.
C8_NoNonFinite ==
    /\ isFinite(calculations.rawLotSize)
    /\ isFinite(calculations.floorLotSize)
    /\ isFinite(calculations.riskForFloor)
    /\ isFinite(calculations.ceilLotSize)
    /\ isFinite(calculations.riskForCeil)

\* C9: the calculation never throws, and a stop-loss or risk text that
\* parseFloat cannot parse gives the result the text "0" gives.
C9_PermissiveParsing ==
    event.name = "render"
    => /\ ~calculations.threw
       /\ isNaN(parseFloat(stopLossPoints))
             => calculations = Calculate(variant, instrument, <<"0">>, riskAmount)
       /\ isNaN(parseFloat(riskAmount))
             => calculations = Calculate(variant, instrument, stopLossPoints, <<"0">>)

C9_Witness ==
    /\ event.name = "render"
    /\ stopLossPoints = <<"a", "b", "c">>
    /\ riskAmount = <<>>
    /\ ~calculations.threw
    /\ calculations.riskForOneContract = Zero
    /\ calculations.rawLotSize = Zero

\* C10: after every event the memoized result is the calculation of the
\* current instrument, stop-loss text and risk text.
C10_ResultFreshness ==
    calculations = Calculate(variant, instrument, stopLossPoints, riskAmount)

C10_Witness ==
    /\ event.name = "handleHalfRisk"
    /\ ~pre.isHalfRisk
    /\ instrument = "MNQ"
    /\ stopLossPoints = <<"3">>
    /\ riskAmount = T50
    /\ calculations.riskForOneContract = Fin(6, 1, 0)
    /\ calculations.floorLotSize = Fin(8, 1, 0)
    /\ calculations.ceilLotSize = Fin(9, 1, 0)

\* C11: in every state reachable by instrument selections, stop-loss edits,
\* risk edits, halves and restores, isHalfRisk = false implies that the
\* riskAmount text is the fullRiskValue text.
C11_FullMeansSnapshotCurrent ==
    ~isHalfRisk => riskAmount = fullRiskValue

C11_Witness ==
    /\ event.name = "handleRiskAmountChange"
    /\ ~pre.isHalfRisk
    /\ ~isHalfRisk
    /\ riskAmount = <<"0", ".", "0", "0", "1">>
    /\ fullRiskValue = <<"0", ".", "0", "0", "1">>

\* C12: when handleHalfRisk fires in state Full with riskAmount = R, then
\* after any risk edits, stop-loss edits, instrument selections and further
\* halve presses, the next firing handleFullRisk sets riskAmount to R, the text
\* held when the halve fired, whatever was typed in between.
C12_RestoreDiscardsEdits ==
    (event.name = "handleFullRisk" /\ pre.isHalfRisk)
        => (halve.held /\ riskAmount = halve.R)

C12_Witness ==
    /\ event.name = "handleFullRisk"
    /\ pre.isHalfRisk
    /\ halve.held
    /\ halve.R = T100
    /\ halve.typed = <<T1e308>>
    /\ stopLossPoints = <<"3">>
    /\ instrument = "GC"
    /\ riskAmount = T100

====
